---- MODULE Spec2Model ----
(***************************************************************************)
(* Model of openscope's console command parser: CommandParser.parse and   *)
(* the command registries of CommandDefinition.                           *)
(*                                                                         *)
(* JavaScript values are tagged records, so that values of different JS   *)
(* types can be compared.  A JS string is a sequence of atoms; an atom is *)
(* the separator " " or a word without separator.                         *)
(***************************************************************************)
EXTENDS Integers, Sequences, FiniteSets, TLC

MaxTokens == 4

\* ------------------------------------------------------------------------
\* JavaScript values
\* ------------------------------------------------------------------------
Undefined == [t |-> "undefined"]
Null == [t |-> "null"]
NaN == [t |-> "number", nan |-> TRUE]
Num(n) == [t |-> "number", n |-> n]
Str(atoms) == [t |-> "string", s |-> atoms]
Word(w) == Str(<<w>>)
Arr(elems) == [t |-> "array", a |-> elems]
Obj == [t |-> "object"]

Return(v) == [k |-> "return", v |-> v]
\* `at` names the call that threw
Throw(error, at) == [k |-> "throw", error |-> error, at |-> at]
Pending == [k |-> "pending"]

\* lodash/isString
_isString(v) == v.t = "string"

\* Array.isArray
IsArray(v) == v.t = "array"

\* ------------------------------------------------------------------------
\* Input vocabulary
\* ------------------------------------------------------------------------
COMMAND_ARGS_SEPARATOR == " "

\* the grave accent character, which a TLA+ string cannot hold
GRAVE == "<grave>"

Vocabulary ==
    {"AA777", "FH", "fh", "50", "sa", "sp", "zz", "timewarp", "constructor",
     "clearedAsFiled"}

\* A conversion that leaves every atom as typed
LowerAtom_AsTyped(a) == a

\* String.prototype.toLowerCase, per atom
LowerAtom(a) ==
    CASE a = "AA777" -> "aa777"
      [] a = "FH" -> "fh"
      [] a = "clearedAsFiled" -> "clearedasfiled"
      [] a = "climbViaSid" -> "climbviasid"
      [] a = "descendViaStar" -> "descendviastar"
      [] OTHER -> a

toLowerCase(str) == Str([i \in 1..Len(str.s) |-> LowerAtom(str.s[i])])

RECURSIVE SplitAtoms(_)
SplitAtoms(atoms) ==
    IF \A i \in 1..Len(atoms) : atoms[i] # COMMAND_ARGS_SEPARATOR
    THEN <<Str(atoms)>>
    ELSE LET i == CHOOSE j \in 1..Len(atoms) :
                    /\ atoms[j] = COMMAND_ARGS_SEPARATOR
                    /\ \A h \in 1..(j - 1) : atoms[h] # COMMAND_ARGS_SEPARATOR
         IN <<Str(SubSeq(atoms, 1, i - 1))>>
                \o SplitAtoms(SubSeq(atoms, i + 1, Len(atoms)))

\* A split that drops the empty tokens of repeated, leading and trailing
\* separators
split_SkipEmpty(str) ==
    Arr(SelectSeq(SplitAtoms(str.s), LAMBDA tok : Len(tok.s) > 0))

\* String.prototype.split(COMMAND_ARGS_SEPARATOR)
split(str) == Arr(SplitAtoms(str.s))

\* lodash/tail
_tail(arr) == Arr(IF Len(arr.a) = 0 THEN <<>> ELSE SubSeq(arr.a, 2, Len(arr.a)))

\* arr[i] of JavaScript, zero based
At(arr, i) == IF i + 1 \in 1..Len(arr.a) THEN arr.a[i + 1] ELSE Undefined

RECURSIVE JoinAtoms(_)
JoinAtoms(words) ==
    IF Len(words) = 0 THEN <<>>
    ELSE IF Len(words) = 1 THEN words[1]
    ELSE words[1] \o <<COMMAND_ARGS_SEPARATOR>> \o JoinAtoms(Tail(words))

TokenChoices == {<<>>} \cup {<<w>> : w \in Vocabulary}

StringInputs ==
    {Str(JoinAtoms(ws)) : ws \in UNION {[1..n -> TokenChoices] : n \in 1..MaxTokens}}

NonStringInputs == {Num(5), Null, Undefined, Arr(<<>>), Obj}

Inputs == StringInputs \cup NonStringInputs

\* ------------------------------------------------------------------------
\* Command registries (CommandDefinition)
\* ------------------------------------------------------------------------
\* One property of an object literal: its key and its value.  Properties are
\* kept in insertion order, the order lodash/findKey visits them in.
\* A definition whose alias list also holds an alias copied from another one
Def_CopiedAlias(key, aliases, functionName, validate, parse) ==
    [key |-> key,
     value |-> [aliases |-> IF key = "sayAssignedAltitude"
                            THEN aliases \o <<"sa">> ELSE aliases,
                functionName |-> functionName,
                validate |-> validate, parse |-> parse]]

Def(key, aliases, functionName, validate, parse) ==
    [key |-> key,
     value |-> [aliases |-> aliases, functionName |-> functionName,
                validate |-> validate, parse |-> parse]]

SysDef(key, validate, parse) ==
    [key |-> key, value |-> [validate |-> validate, parse |-> parse]]

\* the object literal {}
EmptyDef(key) == [key |-> key, value |-> <<>>]

AIRCRAFT_COMMAND_MAP == <<
    Def("abort", <<"abort">>, "runAbort", "zeroArgumentsValidator", "noop"),
    Def("altitude", <<"a", "altitude", "c", "climb", "d", "descend">>, "runAltitude", "altitudeValidator", "altitudeParser"),
    Def("cancelHold", <<"exithold", "cancelhold", "continue", "nohold", "xh">>, "runCancelHoldingPattern", "zeroOrOneArgumentValidator", "noop"),
    Def("clearedAsFiled", <<"caf", "clearedAsFiled">>, "runClearedAsFiled", "zeroArgumentsValidator", "noop"),
    Def("climbViaSid", <<"climbViaSid", "cvs">>, "runClimbViaSID", "optionalAltitudeValidator", "optionalAltitudeParser"),
    Def("cross", <<"cross", "cr", "x">>, "runCross", "crossingValidator", "crossingParser"),
    Def("delete", <<"del", "delete", "kill">>, "runDelete", "zeroArgumentsValidator", "noop"),
    Def("descendViaStar", <<"descendViaStar", "dvs">>, "runDescendViaStar", "optionalAltitudeValidator", "optionalAltitudeParser"),
    Def("direct", <<"dct", "direct", "pd">>, "runDirect", "singleArgumentValidator", "noop"),
    Def("expectArrivalRunway", <<"e">>, "runExpectArrivalRunway", "singleArgumentValidator", "noop"),
    Def("fix", <<"f", "fix", "track">>, "runFix", "fixValidator", "noop"),
    Def("flyPresentHeading", <<"fph">>, "runFlyPresentHeading", "zeroArgumentsValidator", "noop"),
    Def("heading", <<"fh", "h", "heading", "t", "turn">>, "runHeading", "headingValidator", "headingParser"),
    Def("hold", <<"hold">>, "runHold", "holdValidator", "holdParser"),
    Def("ils", <<"*", "i", "ils">>, "runIls", "singleArgumentValidator", "ils.parse"),
    Def("land", <<"land">>, "runLand", "zeroOrOneArgumentValidator", "noop"),
    Def("moveDataBlock", <<GRAVE>>, "runMoveDataBlock", "singleArgumentValidator", "noop"),
    Def("reroute", <<"reroute", "rr">>, "runReroute", "singleArgumentValidator", "noop"),
    Def("route", <<"route">>, "runRoute", "singleArgumentValidator", "noop"),
    Def("sayAltitude", <<"sa">>, "runSayAltitude", "zeroArgumentsValidator", "noop"),
    Def("sayAssignedAltitude", <<"saa">>, "runSayAssignedAltitude", "zeroArgumentsValidator", "noop"),
    Def("sayAssignedHeading", <<"sah">>, "runSayAssignedHeading", "zeroArgumentsValidator", "noop"),
    Def("sayAssignedSpeed", <<"sas">>, "runSayAssignedSpeed", "zeroArgumentsValidator", "noop"),
    Def("sayHeading", <<"sh">>, "runSayHeading", "zeroArgumentsValidator", "noop"),
    Def("sayIndicatedAirspeed", <<"si">>, "runSayIndicatedAirspeed", "zeroArgumentsValidator", "noop"),
    Def("sayRoute", <<"sr">>, "runSayRoute", "zeroArgumentsValidator", "noop"),
    Def("sid", <<"sid">>, "runSID", "singleArgumentValidator", "noop"),
    Def("speed", <<"-", "+", "slow", "sp", "speed">>, "runSpeed", "singleArgumentValidator", "speed.parse"),
    Def("squawk", <<"sq", "squawk">>, "runSquawk", "squawkValidator", "noop"),
    Def("star", <<"star">>, "runSTAR", "singleArgumentValidator", "noop"),
    Def("takeoff", <<"cto", "to", "takeoff">>, "runTakeoff", "zeroArgumentsValidator", "noop"),
    Def("taxi", <<"taxi", "w", "wait">>, "runTaxi", "zeroOrOneArgumentValidator", "noop")
>>

SYSTEM_COMMAND_MAP == <<
    SysDef("airac", "zeroArgumentsValidator", "noop"),
    SysDef("airport", "singleArgumentValidator", "noop"),
    SysDef("auto", "zeroArgumentsValidator", "noop"),
    SysDef("clear", "zeroArgumentsValidator", "noop"),
    SysDef("debug", "zeroArgumentsValidator", "noop"),
    SysDef("pause", "zeroArgumentsValidator", "noop"),
    SysDef("rate", "singleArgumentValidator", "rate.parse"),
    SysDef("timewarp", "zeroOrOneArgumentValidator", "timewarpParser"),
    EmptyDef("transmit"),
    SysDef("tutorial", "zeroArgumentsValidator", "noop")
>>

\* SYSTEM_COMMAND_MAP of definitions/systemCommand/systemCommandMap.js
systemCommandMap == <<
    SysDef("airac", "zeroArgumentsValidator", "noop"),
    SysDef("airport", "singleArgumentValidator", "noop"),
    SysDef("auto", "zeroArgumentsValidator", "noop"),
    SysDef("clear", "zeroArgumentsValidator", "noop"),
    SysDef("debug", "zeroArgumentsValidator", "noop"),
    SysDef("pause", "zeroArgumentsValidator", "noop"),
    SysDef("rate", "singleArgumentValidator", "rate.parse"),
    SysDef("timewarp", "zeroOrOneArgumentValidator", "timewarpParser"),
    EmptyDef("transmit"),
    SysDef("tutorial", "zeroArgumentsValidator", "noop"),
    SysDef("moveDataBlock", "singleArgumentValidator", "noop"),
    SysDef(GRAVE, "singleArgumentValidator", "rate.parse")
>>

\* ------------------------------------------------------------------------
\* Object access
\* ------------------------------------------------------------------------
\* Lower-case names every object literal inherits from Object.prototype
\* (tokens are lower-cased before they are used as property names).
ObjectPrototypeProperties == {"constructor", "__proto__"}

\* ToPropertyKey: the atoms of the property name a value denotes
PropertyKey(v) == IF v.t = "string" THEN v.s ELSE <<v.t>>

OwnKeys(where) == {where[i].key : i \in 1..Len(where)}

HasOwnProperty(where, v) == \E k \in OwnKeys(where) : <<k>> = PropertyKey(v)

\* the `in` operator: own and inherited properties
HasProperty(where, v) ==
    \/ HasOwnProperty(where, v)
    \/ \E k \in ObjectPrototypeProperties : <<k>> = PropertyKey(v)

\* where[v]: the command definition, an inherited member, or undefined
Lookup(where, v) ==
    IF HasOwnProperty(where, v)
    THEN LET i == CHOOSE j \in 1..Len(where) : <<where[j].key>> = PropertyKey(v)
         IN [t |-> "definition", d |-> where[i].value]
    ELSE IF HasProperty(where, v) THEN [t |-> "inherited"]
    ELSE Undefined

HasField(def, f) == def.t = "definition" /\ f \in DOMAIN def.d

\* ------------------------------------------------------------------------
\* aliasToRootCommand
\* ------------------------------------------------------------------------
\* command.aliases.indexOf(commandAlias) !== -1
AliasesContain(command, commandAlias) ==
    \E j \in 1..Len(command.aliases) : Word(command.aliases[j]) = commandAlias

\* lodash/findKey with the predicate of aliasToRootCommand, from property i on
RECURSIVE _findKey(_, _, _)
_findKey(where, commandAlias, i) ==
    IF i > Len(where) THEN Return(Undefined)
    ELSE IF "aliases" \notin DOMAIN where[i].value
         THEN Throw("TypeError", "aliasToRootCommand")
    ELSE IF AliasesContain(where[i].value, commandAlias)
         THEN Return(Word(where[i].key))
    ELSE _findKey(where, commandAlias, i + 1)

aliasToRootCommand(where, commandAlias) == _findKey(where, commandAlias, 1)

\* ------------------------------------------------------------------------
\* Argument parsers and validators
\* ------------------------------------------------------------------------
NumberOf(atom) == CASE atom = "50" -> 50 [] OTHER -> -1

\* utilities/unitConverters
convertStringToNumber(v) ==
    IF _isString(v) /\ Len(v.s) = 1 /\ NumberOf(v.s[1]) >= 0
    THEN Num(NumberOf(v.s[1]))
    ELSE NaN

noop(args) == args

\* parse of the ils definition
ilsParse(args) == Arr(<<Null, At(args, 0)>>)

\* parse of the speed definition
speedParse(arg) == Arr(<<convertStringToNumber(arg)>>)

\* parse of the rate definition
rateParse(args) == Arr(<<convertStringToNumber(args)>>)

\* parser/ArgumentParsers timewarpParser: the numbers its tokens denote
timewarpParser(args) ==
    Arr([i \in 1..Len(args.a) |-> convertStringToNumber(args.a[i])])

\* Number of argument tokens a parser of parser/ArgumentParsers consumes
\* after the command token
ParserArity(fn) ==
    CASE fn = "crossingParser" -> 2
      [] fn = "optionalAltitudeParser" -> 0
      [] OTHER -> 1

Min(a, b) == IF a < b THEN a ELSE b

\* parser/ArgumentParsers for aircraft commands: (parsedArgs, remainingTokens)
EntityArgumentParser(fn, tokens) ==
    LET n == Min(ParserArity(fn), Len(tokens.a) - 1)
    IN Arr(<<Arr(SubSeq(tokens.a, 2, 1 + n)),
             Arr(SubSeq(tokens.a, 2 + n, Len(tokens.a)))>>)

EntityParsers ==
    {"altitudeParser", "headingParser", "holdParser", "optionalAltitudeParser",
     "crossingParser"}

\* obj.parse(arg), obj a command definition
CallParse(fn, arg) ==
    CASE fn = "noop" -> Return(noop(arg))
      [] fn = "ils.parse" -> Return(ilsParse(arg))
      [] fn = "speed.parse" -> Return(speedParse(arg))
      [] fn = "rate.parse" -> Return(rateParse(arg))
      [] fn = "timewarpParser" -> Return(timewarpParser(arg))
      [] fn \in EntityParsers ->
            IF IsArray(arg) /\ Len(arg.a) > 0
            THEN Return(EntityArgumentParser(fn, arg))
            ELSE Throw("ValidationError", fn)

\* Argument counts a validator of parser/ArgumentValidators accepts
ValidArity(fn) ==
    CASE fn = "zeroArgumentsValidator" -> {0}
      [] fn = "singleArgumentValidator" -> {1}
      [] fn = "zeroOrOneArgumentValidator" -> {0, 1}
      [] fn = "optionalAltitudeValidator" -> {0, 1}
      [] fn = "altitudeValidator" -> {1, 2}
      [] fn = "holdValidator" -> {0, 1, 2, 3}
      [] fn = "crossingValidator" -> {2}
      [] OTHER -> {1}

\* obj.validate(parsedArgs): the arguments, or a validation error
CallValidate(fn, parsedArgs) ==
    IF IsArray(parsedArgs) /\ Len(parsedArgs.a) \in ValidArity(fn)
    THEN Return(parsedArgs)
    ELSE Throw("ValidationError", fn)

\* const [parsedArgs, tmp] = value, for an array or a value that cannot be
\* iterated
Destructure2(value) ==
    IF IsArray(value) THEN Return(<<At(value, 0), At(value, 1)>>)
    ELSE Throw("TypeError", "destructuring")

\* ------------------------------------------------------------------------
\* Command
\* ------------------------------------------------------------------------
Command(name, commandType, callsign, args) ==
    [t |-> "Command", name |-> name, commandType |-> commandType,
     callsign |-> callsign, args |-> args]

\* ------------------------------------------------------------------------
\* CommandParser
\* ------------------------------------------------------------------------
VARIABLES rawInput, pc, tokens, callsign, tail, rootCmd, parsedArgs,
          validatedArgs, lookup, result, previous

vars == <<rawInput, pc, tokens, callsign, tail, rootCmd, parsedArgs,
          validatedArgs, lookup, result, previous>>

NoLookup == [where |-> "none"]

\* No call of parse has returned or thrown yet
NoPrevious == [k |-> "none"]

_isSystemCommand(token) == HasProperty(SYSTEM_COMMAND_MAP, token)

\* Steps of a command's dispatch after its root command is resolved:
\* where[rootCmd].parse(argument), then where[rootCmd].validate(parsedArgs).
\* `pair` tells whether the parse result is destructured into
\* [parsedArgs, tmp] (aircraft commands) or used whole (system commands).
Dispatch(where, root, argument, pair, site) ==
    LET def == Lookup(where, root)
        none == [parsedArgs |-> Undefined, tmp |-> argument,
                 validatedArgs |-> Undefined]
    IN IF ~HasField(def, "parse")
       THEN [none EXCEPT !.validatedArgs = Throw("TypeError", site)]
       ELSE LET p == CallParse(def.d.parse, argument)
                d == IF p.k = "throw" THEN p
                     ELSE IF pair THEN Destructure2(p.v)
                     ELSE Return(<<p.v, argument>>)
            IN IF d.k = "throw"
               THEN [none EXCEPT !.validatedArgs = d]
               ELSE [parsedArgs |-> d.v[1], tmp |-> d.v[2],
                     validatedArgs |->
                        IF ~HasField(def, "validate")
                        THEN Throw("TypeError", site)
                        ELSE CallValidate(def.d.validate, d.v[1])]

Init ==
    /\ rawInput \in Inputs
    /\ pc = "parse"
    /\ tokens = Undefined
    /\ callsign = Undefined
    /\ tail = Undefined
    /\ rootCmd = Undefined
    /\ parsedArgs = Undefined
    /\ validatedArgs = Undefined
    /\ lookup = NoLookup
    /\ result = Pending
    /\ previous = NoPrevious

\* parse without the guard on the input's type
ParseGuard_NoTypeCheck ==
    /\ pc = "parse"
    /\ pc' = "tokenize"
    /\ UNCHANGED <<previous, rawInput, tokens, callsign, tail, rootCmd, parsedArgs,
                   validatedArgs, lookup, result>>

\* parse, the guard on the input's type
ParseGuard ==
    /\ pc = "parse"
    /\ IF ~_isString(rawInput)
       THEN /\ result' = Throw("TypeError", "parse")
            /\ pc' = "done"
       ELSE /\ pc' = "tokenize"
            /\ UNCHANGED result
    /\ UNCHANGED <<previous, rawInput, tokens, callsign, tail, rootCmd, parsedArgs,
                   validatedArgs, lookup>>

\* parse, rawInput.toLowerCase().split(COMMAND_ARGS_SEPARATOR)
Tokenize ==
    /\ pc = "tokenize"
    /\ IF _isString(rawInput)
       THEN /\ tokens' = split(toLowerCase(rawInput))
            /\ pc' = "classify"
            /\ UNCHANGED result
       ELSE /\ result' = Throw("TypeError", "toLowerCase")
            /\ pc' = "done"
            /\ UNCHANGED tokens
    /\ UNCHANGED <<previous, rawInput, callsign, tail, rootCmd, parsedArgs,
                   validatedArgs, lookup>>

\* parse, the choice between system command and aircraft command
Classify ==
    /\ pc = "classify"
    /\ pc' = IF _isSystemCommand(At(tokens, 0)) THEN "system" ELSE "aircraft"
    /\ UNCHANGED <<previous, rawInput, tokens, callsign, tail, rootCmd, parsedArgs,
                   validatedArgs, lookup, result>>

_parseSystemCommand ==
    /\ pc = "system"
    /\ LET commandName == At(tokens, 0)
           argTokens == _tail(tokens)
           root == aliasToRootCommand(SYSTEM_COMMAND_MAP, commandName)
       IN /\ lookup' = [where |-> "SYSTEM_COMMAND_MAP", alias |-> commandName,
                        outcome |-> root]
          /\ IF root.k = "throw"
             THEN /\ result' = root
                  /\ UNCHANGED <<rootCmd, parsedArgs, validatedArgs>>
             ELSE LET d == Dispatch(SYSTEM_COMMAND_MAP, root.v, argTokens, FALSE,
                                    "_parseSystemCommand")
                  IN /\ rootCmd' = root.v
                     /\ parsedArgs' = d.parsedArgs
                     /\ IF d.validatedArgs.k = "throw"
                        THEN /\ result' = d.validatedArgs
                             /\ UNCHANGED validatedArgs
                        ELSE /\ validatedArgs' = d.validatedArgs.v
                             /\ result' = Return(Command(root.v, Word("system"),
                                                 Str(<<>>), d.validatedArgs.v))
    /\ pc' = "done"
    /\ UNCHANGED <<previous, rawInput, tokens, callsign, tail>>

\* _parseAircraftCommand up to the loop
_parseAircraftCommand ==
    /\ pc = "aircraft"
    /\ callsign' = At(tokens, 0)
    /\ tail' = _tail(tokens)
    /\ pc' = "while"
    /\ UNCHANGED <<previous, rawInput, tokens, rootCmd, parsedArgs, validatedArgs, lookup,
                   result>>

\* _parseAircraftCommand, one pass of the loop body, which ends in `return`
WhileBody ==
    /\ pc = "while"
    /\ IsArray(tail) /\ Len(tail.a) > 0
    /\ LET commandName == At(tail, 0)
           root == aliasToRootCommand(AIRCRAFT_COMMAND_MAP, commandName)
       IN /\ lookup' = [where |-> "AIRCRAFT_COMMAND_MAP", alias |-> commandName,
                        outcome |-> root]
          /\ IF root.k = "throw"
             THEN /\ result' = root
                  /\ UNCHANGED <<rootCmd, parsedArgs, validatedArgs, tail>>
             ELSE LET d == Dispatch(AIRCRAFT_COMMAND_MAP, root.v, tail, TRUE,
                                    "_parseAircraftCommand")
                  IN /\ rootCmd' = root.v
                     /\ parsedArgs' = d.parsedArgs
                     /\ tail' = d.tmp
                     /\ IF d.validatedArgs.k = "throw"
                        THEN /\ result' = d.validatedArgs
                             /\ UNCHANGED validatedArgs
                        ELSE /\ validatedArgs' = d.validatedArgs.v
                             /\ result' = Return(Command(root.v, Word("aircraft"),
                                                 callsign, d.validatedArgs.v))
    /\ pc' = "done"
    /\ UNCHANGED <<previous, rawInput, tokens, callsign>>

\* _parseAircraftCommand, the loop's exit: the method ends without `return`
WhileExit ==
    /\ pc = "while"
    /\ IsArray(tail) /\ Len(tail.a) = 0
    /\ result' = Return(Undefined)
    /\ pc' = "done"
    /\ UNCHANGED <<previous, rawInput, tokens, callsign, tail, rootCmd, parsedArgs,
                   validatedArgs, lookup>>

Next ==
    \/ ParseGuard
    \/ Tokenize
    \/ Classify
    \/ _parseSystemCommand
    \/ _parseAircraftCommand
    \/ WhileBody
    \/ WhileExit

Spec == Init /\ [][Next]_vars

\* ------------------------------------------------------------------------
\* Two submissions of one line, typed in different letter case
\* ------------------------------------------------------------------------
CaseVocabulary == {"AA777", "aa777", "FH", "fh", "50", "timewarp"}

\* Atoms that are the same but for the case of their letters
LetterCaseClasses == {{"AA777", "aa777"}, {"FH", "fh"}}

SameButCase(a, b) == a = b \/ \E c \in LetterCaseClasses : {a, b} \subseteq c

CaseInputs ==
    {Str(JoinAtoms(ws)) :
        ws \in UNION {[1..n -> {<<>>} \cup {<<w>> : w \in CaseVocabulary}] :
                        n \in 1..MaxTokens}}

\* The atoms that differ from a only in letter case, a among them
AtomVariants(a) ==
    {b \in CaseVocabulary \cup {COMMAND_ARGS_SEPARATOR} : SameButCase(a, b)}

RECURSIVE AtomsVariants(_)
AtomsVariants(atoms) ==
    IF Len(atoms) = 0 THEN {<<>>}
    ELSE {<<h>> \o t : h \in AtomVariants(atoms[1]),
                       t \in AtomsVariants(Tail(atoms))}

\* The strings that differ from str only in letter case
CaseVariants(str) == {Str(atoms) : atoms \in AtomsVariants(str.s)}

InitCase ==
    /\ rawInput \in CaseInputs \cup NonStringInputs
    /\ pc = "parse"
    /\ tokens = Undefined
    /\ callsign = Undefined
    /\ tail = Undefined
    /\ rootCmd = Undefined
    /\ parsedArgs = Undefined
    /\ validatedArgs = Undefined
    /\ lookup = NoLookup
    /\ result = Pending
    /\ previous = NoPrevious

\* parse is called again, with the line typed in another letter case
Resubmit ==
    /\ pc = "done"
    /\ previous = NoPrevious
    /\ _isString(rawInput)
    /\ \E r \in CaseVariants(rawInput) \ {rawInput} : rawInput' = r
    /\ previous' = [k |-> "call", rawInput |-> rawInput, result |-> result]
    /\ pc' = "parse"
    /\ tokens' = Undefined
    /\ callsign' = Undefined
    /\ tail' = Undefined
    /\ rootCmd' = Undefined
    /\ parsedArgs' = Undefined
    /\ validatedArgs' = Undefined
    /\ lookup' = NoLookup
    /\ result' = Pending

NextCase ==
    \/ Next
    \/ Resubmit

SpecCase == InitCase /\ [][NextCase]_vars

\* ------------------------------------------------------------------------
\* What the specification expects of a line
\* ------------------------------------------------------------------------
Registry(name) ==
    IF name = "SYSTEM_COMMAND_MAP" THEN SYSTEM_COMMAND_MAP ELSE AIRCRAFT_COMMAND_MAP

\* The alias set of a command definition; empty when it lists no aliases
AliasSet(value) ==
    IF "aliases" \in DOMAIN value
    THEN {Word(value.aliases[j]) : j \in 1..Len(value.aliases)}
    ELSE {}

\* The canonical names whose alias set holds the token
Resolving(where, token) ==
    {where[i].key : i \in {j \in 1..Len(where) : token \in AliasSet(where[j].value)}}

\* The Command records of a result: a record, or an array of records
Records(r) ==
    IF r.k # "return" THEN <<>>
    ELSE IF r.v.t = "Command" THEN <<r.v>>
    ELSE IF IsArray(r.v) THEN r.v.a
    ELSE <<>>

\* The chained sub-commands of a working tail: each is a command token and
\* the argument tokens its validator asks for.  status is "ok", "fails" (an
\* unknown alias, or too few arguments) or "open" (a command that takes a
\* varying number of arguments, which this reading does not settle).
RECURSIVE ExpectedSegments(_)
ExpectedSegments(toks) ==
    IF Len(toks) = 0 THEN [status |-> "ok", segs |-> <<>>]
    ELSE LET keys == Resolving(AIRCRAFT_COMMAND_MAP, toks[1])
         IN IF keys = {} THEN [status |-> "fails", segs |-> <<>>]
            ELSE LET key == CHOOSE k \in keys : TRUE
                     def == Lookup(AIRCRAFT_COMMAND_MAP, Word(key)).d
                     arities == ValidArity(def.validate)
                     n == CHOOSE a \in arities : TRUE
                 IN IF Cardinality(arities) # 1
                    THEN [status |-> "open", segs |-> <<>>]
                    ELSE IF Len(toks) - 1 < n
                    THEN [status |-> "fails", segs |-> <<>>]
                    ELSE LET rest == ExpectedSegments(SubSeq(toks, n + 2, Len(toks)))
                         IN [status |-> rest.status,
                             segs |-> <<[name |-> Word(key),
                                         args |-> SubSeq(toks, 2, n + 1)]>>
                                      \o rest.segs]

\* The line is an aircraft line that has reached the end of parse
AircraftLineDone == pc = "done" /\ callsign # Undefined

Range(seq) == {seq[i] : i \in 1..Len(seq)}

\* ------------------------------------------------------------------------
\* Claims
\* ------------------------------------------------------------------------

\* C1: an aircraft line of a target id and k >= 1 well-formed chained
\* sub-commands yields exactly k Command records, in input order, each with
\* the line's first token as callsign, the i-th named by the root command of
\* the i-th sub-command's alias and with arguments drawn only from the i-th
\* sub-command's own tokens.
C1_ChainYieldsEveryCommand ==
    AircraftLineDone =>
        LET e == ExpectedSegments(_tail(tokens).a)
            recs == Records(result)
        IN (e.status = "ok" /\ Len(e.segs) >= 1) =>
              /\ Len(recs) = Len(e.segs)
              /\ \A i \in 1..Len(recs) :
                    /\ recs[i].name = e.segs[i].name
                    /\ recs[i].commandType = Word("aircraft")
                    /\ recs[i].callsign = At(tokens, 0)
                    /\ IsArray(recs[i].args)
                    /\ \A x \in Range(recs[i].args.a) :
                          x.t = "string" => x \in Range(e.segs[i].args)

\* The arguments validate(parse(remaining tokens)) of a system line
SystemArgs == Dispatch(SYSTEM_COMMAND_MAP, At(tokens, 0), _tail(tokens), FALSE,
                       "_parseSystemCommand").validatedArgs

\* C2: a line whose first token is a key of the System registry and whose
\* remaining tokens are valid arguments for it yields exactly one Command
\* with category system, that key as name, an empty callsign and the
\* arguments validate(parse(remaining tokens)).
C2_SystemLineYieldsOneCommand ==
    (/\ pc = "done"
     /\ tokens # Undefined
     /\ HasOwnProperty(SYSTEM_COMMAND_MAP, At(tokens, 0))
     /\ SystemArgs.k = "return")
    => result = Return(Command(At(tokens, 0), Word("system"), Str(<<>>),
                               SystemArgs.v))

\* C3: when the command token that was looked up is in no alias set of its
\* registry, parse fails with an UnknownCommandError, never with another
\* error and never with an empty result.
C3_UnknownCommandError ==
    (/\ pc = "done"
     /\ lookup # NoLookup
     /\ Resolving(Registry(lookup.where), lookup.alias) = {})
    => (result.k = "throw" /\ result.error = "UnknownCommandError")

\* C4: when a sub-command of a chained aircraft line fails (unknown alias
\* or failed validation), parse returns no Command record for the line.
C4_WholeLineAtomicity ==
    (/\ AircraftLineDone
     /\ ExpectedSegments(_tail(tokens).a).status = "fails")
    => Records(result) = <<>>

\* s is t without a non-empty prefix
IsProperSuffix(s, t) ==
    \E n \in 1..Len(t) : s = SubSeq(t, n + 1, Len(t))

\* C5: the parse of an aircraft command definition, called with the working
\* tail, returns the pair (parsedArgs, remainingTokens): after the
\* destructuring, parsedArgs is the command's argument list and the new
\* tail is a strictly shorter suffix of the tail passed in.
C5_ParseReturnsArgsAndRemainder ==
    (/\ AircraftLineDone
     /\ lookup # NoLookup
     /\ rootCmd # Undefined)
    => /\ IsArray(parsedArgs)
       /\ IsArray(tail)
       /\ IsProperSuffix(tail.a, _tail(tokens).a)

\* C6: parse of an input that is no string fails with a TypeError before
\* any tokenization, classification or registry lookup, and yields no
\* Command record.
C6_NonStringInputTypeError ==
    ~_isString(rawInput) =>
        /\ pc \in {"parse", "done"}
        /\ tokens = Undefined
        /\ callsign = Undefined
        /\ lookup = NoLookup
        /\ pc = "done" => result = Throw("TypeError", "parse")
        /\ Records(result) = <<>>

C6_Witness ==
    /\ pc = "done"
    /\ rawInput = Null
    /\ result = Throw("TypeError", "parse")

\* C7: the first token is handled as a system command if and only if it is
\* a key of the System registry; every other first token sends the line to
\* the aircraft path, where it is the callsign.
C7_SystemIffRegistryKey ==
    /\ pc \in {"system", "aircraft"} =>
          (pc = "system" <=> HasOwnProperty(SYSTEM_COMMAND_MAP, At(tokens, 0)))
    /\ pc = "while" =>
          /\ ~HasOwnProperty(SYSTEM_COMMAND_MAP, At(tokens, 0))
          /\ callsign = At(tokens, 0)

\* C8: in both registries, an alias of a definition c resolves to c, and a
\* token in no alias set resolves to undefined without failing.
C8_AliasResolvesToRoot ==
    lookup # NoLookup =>
        LET where == Registry(lookup.where)
            roots == Resolving(where, lookup.alias)
        IN /\ \A c \in roots : lookup.outcome = Return(Word(c))
           /\ roots = {} => lookup.outcome = Return(Undefined)

Registries == {AIRCRAFT_COMMAND_MAP, SYSTEM_COMMAND_MAP, systemCommandMap}

\* No token is in the alias sets of two definitions of one registry
PairwiseDisjointAliases ==
    \A where \in Registries : \A i, j \in 1..Len(where) :
        i # j => AliasSet(where[i].value) \cap AliasSet(where[j].value) = {}

\* C9: within one registry the alias sets are pairwise disjoint, so the
\* root command a lookup returns is the only one that lists the alias.
C9_AliasSetsDisjoint ==
    /\ PairwiseDisjointAliases
    /\ (lookup # NoLookup /\ lookup.outcome.k = "return"
            /\ lookup.outcome.v # Undefined)
          => Resolving(Registry(lookup.where), lookup.alias)
                = {lookup.outcome.v.s[1]}

C9_Witness ==
    /\ lookup # NoLookup
    /\ lookup.where = "AIRCRAFT_COMMAND_MAP"
    /\ lookup.alias = Word("sa")
    /\ lookup.outcome = Return(Word("sayAltitude"))

Complete(where) ==
    \A i \in 1..Len(where) : {"validate", "parse"} \subseteq DOMAIN where[i].value

\* C10: every definition of both registries has a validate and a parse
\* function, so that when a line reaches the dispatch over a registry, no
\* name that can be selected there leads to a call of an undefined field.
C10_EveryDefinitionHasValidateAndParse ==
    /\ pc = "system" => (Complete(SYSTEM_COMMAND_MAP) /\ Complete(systemCommandMap))
    /\ pc = "while" => Complete(AIRCRAFT_COMMAND_MAP)

\* C11: two inputs that differ only in letter case give the same outcome
\* of parse: the same Command field for field, or the same failure.
C11_CaseInsensitive ==
    (/\ pc = "done"
     /\ previous # NoPrevious
     /\ Len(previous.rawInput.s) = Len(rawInput.s)
     /\ \A i \in 1..Len(rawInput.s) :
            SameButCase(previous.rawInput.s[i], rawInput.s[i]))
    => result = previous.result

C11_Witness ==
    /\ pc = "done"
    /\ previous # NoPrevious
    /\ previous.rawInput = Str(<<"AA777", " ", "FH", " ", "50">>)
    /\ rawInput = Str(<<"aa777", " ", "fh", " ", "50">>)
    /\ result.k = "return"
    /\ result = previous.result

CountSeparators(atoms) ==
    Cardinality({i \in 1..Len(atoms) : atoms[i] = COMMAND_ARGS_SEPARATOR})

\* C12: the lower-cased input is split on every single space without
\* trimming or collapsing: n spaces give n + 1 tokens, which joined by
\* spaces are the lower-cased input again (repeated, leading and trailing
\* spaces give empty tokens), and the tokens, empty ones included, reach
\* classification, alias resolution and argument parsing as they are.
C12_SplitKeepsEmptyTokens ==
    tokens # Undefined =>
        /\ Len(tokens.a) = CountSeparators(rawInput.s) + 1
        /\ JoinAtoms([i \in 1..Len(tokens.a) |-> tokens.a[i].s])
              = toLowerCase(rawInput).s
        /\ pc \in {"system", "aircraft"} =>
              (pc = "system" <=> HasProperty(SYSTEM_COMMAND_MAP, tokens.a[1]))
        /\ callsign # Undefined =>
              (callsign = tokens.a[1] /\ Len(tokens.a) = 1 + Len(_tail(tokens).a))
        /\ lookup # NoLookup =>
              lookup.alias = IF lookup.where = "SYSTEM_COMMAND_MAP"
                             THEN tokens.a[1] ELSE tokens.a[2]
        /\ (pc = "done" /\ IsArray(parsedArgs)) =>
              parsedArgs.a = SubSeq(tokens.a, 3, 2 + Len(parsedArgs.a))

\* "AA777  fh 50": the empty token is the command token of the tail
C12_Witness ==
    /\ pc = "done"
    /\ rawInput = Str(<<"AA777", " ", " ", "fh", " ", "50">>)
    /\ Len(tokens.a) = 4
    /\ lookup # NoLookup
    /\ lookup.alias = Str(<<>>)
    /\ lookup.outcome = Return(Undefined)
    /\ result.k = "throw"

\* The command token of an aircraft line as it was typed
TypedCommandToken == At(_tail(split(rawInput)), 0)

\* C13: every alias listed in the aircraft registry can be reached from
\* user input: a line whose command token is typed as the alias is listed
\* resolves to the definition that lists it (the alias is its own
\* lower-cased form).
C13_EveryAliasReachable ==
    (lookup # NoLookup /\ lookup.where = "AIRCRAFT_COMMAND_MAP") =>
        \A c \in Resolving(AIRCRAFT_COMMAND_MAP, TypedCommandToken) :
            /\ lookup.alias = TypedCommandToken
            /\ lookup.outcome = Return(Word(c))

====
